---- MODULE Spec2Model ----
(***************************************************************************)
(* Driver rest recommendation system (wlgs/fatigue-detection-system).     *)
(*                                                                         *)
(* Numbers are fixed point.  rest_points is counted in units of 1/RP of a *)
(* rest point, biometric readings in units of 1/Q of their physical unit, *)
(* probabilities of the biometric detector in thousandths and those of    *)
(* the environment evaluator in ten-thousandths.  Every CPD entry, weight *)
(* and threshold of the source is an exact integer in these units; the    *)
(* only rounding is the floor of the 0.95/0.05 blend in _update_metric    *)
(* and of the division by fatigue_resistance.                              *)
(***************************************************************************)
EXTENDS Integers, Sequences, FiniteSets, TLC

\* ------------------------------------------------------------------ units
RP == 160
Q == 16000

\* ------------------------------------------------------------------ bounds
MaxTick == 70
InputTicks == 1
MaxInputs == 1
MaxConcTick == 3
MaxAlarms == 3
MaxEnvKeys == 2
MaxLongTick == 290
MaxStepTick == 12

\* ------------------------------------------------------------- constants
rest_threshold == 0
valid_alarm_threshold == 20
deque_length == 200
ALARM_THRESHOLD == 700
fatigue_bias == 25

Signals == {"heart_rate", "hrv", "eda", "perclos", "blink_duration", "blink_rate"}
DriverCharacteristic ==
    {"normal", "low_heart_rate", "fast_blinker", "eyes_wide_open", "sweaty_palms", "drowsy"}
ScenarioType == {"normal", "bad", "worst"}

Min2(a, b) == IF a < b THEN a ELSE b
Max2(a, b) == IF a > b THEN a ELSE b

\* ------------------------------------------------------- EnvironmentSimulator
weather_options == <<"clear", "rain", "fog", "snow", "sunny">>
traffic_options == <<"low", "medium", "high">>
road_options == <<"highway", "city", "rural">>

SeqRange(s) == {s[i] : i \in 1..Len(s)}

IndexOf(s, v) == CHOOSE i \in 1..Len(s) : s[i] = v

\* options[(index + 1) % len(options)] with Python's 0-based index
NextOption_without_wrap(s, v) ==
    IF IndexOf(s, v) = Len(s) THEN "none" ELSE s[IndexOf(s, v) + 1]
NextOption(s, v) == s[(IndexOf(s, v) % Len(s)) + 1]

\* simulate_weather / simulate_traffic / simulate_road_type: `draw` is the
\* outcome of the two random calls, "keep" when random.random() is not below
\* the change probability, otherwise the value random.choices returns.
simulate_field(current, draw) == IF draw = "keep" THEN current ELSE draw

simulate_time_of_day_half_period(current_time_of_day, tick) ==
    IF tick % 144 = 0
    THEN (IF current_time_of_day = "day" THEN "night" ELSE "day")
    ELSE current_time_of_day
simulate_time_of_day(current_time_of_day, tick) ==
    IF tick % 288 = 0
    THEN (IF current_time_of_day = "day" THEN "night" ELSE "day")
    ELSE current_time_of_day

\* ---------------------------------------------------------------- DriverState
environment_scenarios(sc) ==
    CASE sc = "normal" -> [weather_condition |-> "clear", traffic_density |-> "low",
                           time_of_day |-> "day", road_type |-> "highway"]
      [] sc = "worst"  -> [weather_condition |-> "snow", traffic_density |-> "high",
                           time_of_day |-> "night", road_type |-> "rural"]
      [] sc = "bad"    -> [weather_condition |-> "rain", traffic_density |-> "high",
                           time_of_day |-> "day", road_type |-> "city"]

DefaultBio ==
    [m \in Signals |->
        CASE m = "heart_rate" -> 75 * Q
          [] m = "hrv" -> 50 * Q
          [] m = "eda" -> 5 * Q
          [] m = "perclos" -> (15 * Q) \div 100
          [] m = "blink_duration" -> 200 * Q
          [] m = "blink_rate" -> 15 * Q]

\* ------------------------------------------------------------ DriverSimulator
\* characteristic_biases[c][m]["base_offset"], in 1/Q
base_offset(c, m) ==
    CASE c = "low_heart_rate" /\ m = "heart_rate" -> -30 * Q
      [] c = "low_heart_rate" /\ m = "hrv" -> 5 * Q
      [] c = "fast_blinker" /\ m = "perclos" -> (5 * Q) \div 100
      [] c = "fast_blinker" /\ m = "blink_duration" -> -50 * Q
      [] c = "fast_blinker" /\ m = "blink_rate" -> 5 * Q
      [] c = "eyes_wide_open" /\ m = "perclos" -> -((5 * Q) \div 100)
      [] c = "eyes_wide_open" /\ m = "blink_duration" -> -30 * Q
      [] c = "eyes_wide_open" /\ m = "blink_rate" -> -3 * Q
      [] c = "sweaty_palms" /\ m = "heart_rate" -> 5 * Q
      [] c = "sweaty_palms" /\ m = "hrv" -> -5 * Q
      [] c = "sweaty_palms" /\ m = "eda" -> 2 * Q
      [] c = "drowsy" /\ m = "heart_rate" -> -5 * Q
      [] c = "drowsy" /\ m = "hrv" -> -5 * Q
      [] c = "drowsy" /\ m = "eda" -> -1 * Q
      [] c = "drowsy" /\ m = "perclos" -> (10 * Q) \div 100
      [] c = "drowsy" /\ m = "blink_duration" -> 50 * Q
      [] c = "drowsy" /\ m = "blink_rate" -> 3 * Q
      [] OTHER -> 0

\* characteristic_biases[c][m]["fatigue_resistance"], in tenths
fatigue_resistance(c, m) ==
    CASE c = "low_heart_rate" /\ m = "heart_rate" -> 100
      [] c = "low_heart_rate" /\ m = "hrv" -> 12
      [] c = "fast_blinker" /\ m = "perclos" -> 11
      [] c = "fast_blinker" /\ m = "blink_rate" -> 9
      [] c = "eyes_wide_open" /\ m \in {"perclos", "blink_duration", "blink_rate"} -> 30
      [] c = "sweaty_palms" /\ m \in {"heart_rate", "hrv"} -> 9
      [] c = "sweaty_palms" /\ m = "eda" -> 8
      [] c = "drowsy" /\ m \in {"heart_rate", "hrv", "blink_rate"} -> 8
      [] c = "drowsy" /\ m = "eda" -> 9
      [] c = "drowsy" /\ m \in {"perclos", "blink_duration"} -> 7
      [] OTHER -> 10

\* metrics[m] of simulate_physiological, before the profile offset, in 1/Q
metric_rested(m) ==
    CASE m = "heart_rate" -> 80 * Q
      [] m = "hrv" -> 50 * Q
      [] m = "eda" -> 7 * Q
      [] m = "perclos" -> (15 * Q) \div 100
      [] m = "blink_duration" -> 200 * Q
      [] m = "blink_rate" -> 12 * Q

metric_fatigued(m) ==
    CASE m = "heart_rate" -> 55 * Q
      [] m = "hrv" -> 25 * Q
      [] m = "eda" -> 2 * Q
      [] m = "perclos" -> (40 * Q) \div 100
      [] m = "blink_duration" -> 500 * Q
      [] m = "blink_rate" -> 27 * Q

metric_min(m) ==
    CASE m = "heart_rate" -> 45 * Q
      [] m = "hrv" -> 15 * Q
      [] m = "eda" -> 1 * Q
      [] m = "perclos" -> Q \div 10
      [] m = "blink_duration" -> 100 * Q
      [] m = "blink_rate" -> 8 * Q

metric_max(m) ==
    CASE m = "heart_rate" -> 100 * Q
      [] m = "hrv" -> 70 * Q
      [] m = "eda" -> 12 * Q
      [] m = "perclos" -> Q \div 2
      [] m = "blink_duration" -> 600 * Q
      [] m = "blink_rate" -> 30 * Q

metric_variance(m) ==
    CASE m = "heart_rate" -> 2 * Q
      [] m = "hrv" -> 2 * Q
      [] m = "eda" -> Q \div 5
      [] m = "perclos" -> Q \div 50
      [] m = "blink_duration" -> 20 * Q
      [] m = "blink_rate" -> 1 * Q

\* target of metric m for a driver of characteristic c at energy_level (1/RP):
\* fatigue_factor = (100 - fatigue_bias - energy_level) / 100 is used as it
\* comes, negative above 75 and never clamped; adjusted_fatigue divides it by
\* the resistance.
metric_target(c, m, energy_level) ==
    LET num == (100 - fatigue_bias) * RP - energy_level
        rested == metric_rested(m) + base_offset(c, m)
        fatigued == metric_fatigued(m) + base_offset(c, m)
        shift(span) == ((span \div 100) * num) \div ((RP \div 10) * fatigue_resistance(c, m))
    IN  IF m \in {"perclos", "blink_duration", "blink_rate"}
        THEN rested + shift(fatigued - rested)
        ELSE rested - shift(rested - fatigued)

\* _update_metric: noise is the value of random.uniform(-variance, variance)
update_metric(current_value, target_value, noise, min_val, max_val) ==
    Max2(min_val, Min2(max_val, (95 * (current_value + noise) + 5 * target_value) \div 100))

\* simulate_physiological: sign[m] in {-1, 0, 1} picks the noise of metric m
\* among -variance, 0 and +variance.
simulate_physiological(c, b, energy_level, sign) ==
    [m \in Signals |->
        update_metric(b[m], metric_target(c, m, energy_level),
                      sign[m] * metric_variance(m), metric_min(m), metric_max(m))]

reset_value(m) ==
    CASE m = "heart_rate" -> 75 * Q
      [] m = "hrv" -> 50 * Q
      [] m = "eda" -> 6 * Q
      [] m = "perclos" -> Q \div 10
      [] m = "blink_duration" -> 200 * Q
      [] m = "blink_rate" -> 12 * Q

reset_to_normal_state(c) == [m \in Signals |-> reset_value(m) + base_offset(c, m)]

\* ---------------------------------------------------- BiometricFatigueDetector
\* _get_biometric_states: the bin 0..3 of one reading v (1/Q)
biometric_state(m, v) ==
    CASE m = "heart_rate" ->
            (IF v >= 70 * Q /\ v <= 80 * Q THEN 0
             ELSE IF v >= 65 * Q /\ v < 70 * Q THEN 1
             ELSE IF v >= 60 * Q /\ v < 65 * Q THEN 2 ELSE 3)
      [] m = "hrv" ->
            (IF v >= 45 * Q /\ v <= 55 * Q THEN 0
             ELSE IF v >= 35 * Q /\ v < 45 * Q THEN 1
             ELSE IF v >= 25 * Q /\ v < 35 * Q THEN 2 ELSE 3)
      [] m = "eda" ->
            (IF v >= 6 * Q /\ v <= 8 * Q THEN 0
             ELSE IF v >= 4 * Q /\ v < 6 * Q THEN 1
             ELSE IF v >= 2 * Q /\ v < 4 * Q THEN 2 ELSE 3)
      [] m = "perclos" ->
            (IF v >= (10 * Q) \div 100 /\ v <= (20 * Q) \div 100 THEN 0
             ELSE IF v > (20 * Q) \div 100 /\ v <= (30 * Q) \div 100 THEN 1
             ELSE IF v > (30 * Q) \div 100 /\ v <= (40 * Q) \div 100 THEN 2 ELSE 3)
      [] m = "blink_duration" ->
            (IF v >= 150 * Q /\ v <= 250 * Q THEN 0
             ELSE IF v > 250 * Q /\ v <= 350 * Q THEN 1
             ELSE IF v > 350 * Q /\ v <= 450 * Q THEN 2 ELSE 3)
      [] m = "blink_rate" ->
            (IF v >= 10 * Q /\ v <= 14 * Q THEN 0
             ELSE IF v > 14 * Q /\ v <= 18 * Q THEN 1
             ELSE IF v > 18 * Q /\ v <= 22 * Q THEN 2 ELSE 3)

get_biometric_states(b) == [m \in Signals |-> biometric_state(m, b[m])]

\* state_weights of _calculate_fatigue_probabilities, in tenths
state_weights_swapped(i) == CASE i = 0 -> 4 [] i = 1 -> 1 [] i = 2 -> 7 [] i = 3 -> 9
state_weights(i) == CASE i = 0 -> 1 [] i = 1 -> 4 [] i = 2 -> 7 [] i = 3 -> 9

\* WEIGHTS of setup_bayesian_network, in hundredths
biometric_weight(m) == IF m \in {"hrv", "perclos"} THEN 20 ELSE 15

RECURSIVE SumOver(_, _)
SumOver(f, S) ==
    IF S = {} THEN 0
    ELSE LET x == CHOOSE y \in S : TRUE IN f[x] + SumOver(f, S \ {x})

\* cpd_fatigue: P(Fatigue = 1 | states), in thousandths; the column that
\* _calculate_fatigue_probabilities fills for the state vector `states`
cpd_fatigue(states) ==
    Min2(1000, SumOver([m \in Signals |-> state_weights(states[m]) * biometric_weight(m)],
                       Signals))

\* cpd_alarm: P(Alarm = 1 | Fatigue = f), in thousandths
cpd_alarm_swapped(f) == IF f = 1 THEN 100 ELSE 900
cpd_alarm(f) == IF f = 1 THEN 900 ELSE 100

\* evidence of detect_fatigue: `1 if prob > 0.5 else 0`, applied to the bin index
evidence_state(bin) == IF 10 * bin > 5 THEN 1 ELSE 0

\* detect_fatigue: both queries have all parents of the queried node as
\* evidence, so exact inference returns the CPD column of the evidence.
detect_fatigue(b) ==
    LET states == get_biometric_states(b)
        evidence == [m \in Signals |-> evidence_state(states[m])]
        fatigue_prob == cpd_fatigue(evidence)
        alarm_prob == cpd_alarm(IF fatigue_prob > 500 THEN 1 ELSE 0)
    IN  [fatigue_prob |-> fatigue_prob,
         alarm_prob |-> alarm_prob,
         alarm_triggered |-> alarm_prob > ALARM_THRESHOLD]

\* ------------------------------------------------------------ FatigueEvaluator
\* CPD entries in hundredths, WEIGHTS in hundredths: factors in 1/10000
time_factor(t) == (IF t = "night" THEN 80 ELSE 20) * 25
rest_factor(hours_x60) == (IF hours_x60 > 2 * 60 THEN 80 ELSE 20) * 30
weather_factor(w) ==
    (CASE w = "clear" -> 0 [] w = "rain" -> 20 [] w = "fog" -> 35
       [] w = "snow" -> 30 [] w = "sunny" -> 15) * 15
traffic_factor(t) == (CASE t = "low" -> 10 [] t = "medium" -> 30 [] t = "high" -> 60) * 15
road_factor(r) == (CASE r = "highway" -> 10 [] r = "city" -> 30 [] r = "rural" -> 60) * 15

\* evaluate_fatigue: P(Fatigue = 1 | evidence), in 1/10000; time_since_rest is
\* passed in minutes (ticks * 5) so that `hours > 2` stays an integer test
evaluate_fatigue(tod, weather, traffic, road, minutes_since_rest) ==
    Min2(10000, time_factor(tod) + rest_factor(minutes_since_rest)
                + weather_factor(weather) + traffic_factor(traffic) + road_factor(road))

\* rest_loss = combined_fatigue * 2.5, converted from 1/10000 to 1/RP
rest_loss_of_whole_points(fatigue_level) == ((fatigue_level * 25) \div (10 * 10000)) * RP
rest_loss_of(fatigue_level) == (fatigue_level * 25 * RP) \div (10 * 10000)

\* ----------------------------------------------------- RestRecommendationSystem
VARIABLES
    scenario, characteristic,          \* constructor arguments
    rest_points, last_rest_tick, last_drive_tick_time,
    weather_condition, traffic_density, time_of_day, road_type,
    bio,                               \* the six readings of DriverState
    alarm_probability, current_alarm_state,
    simulation_running, paused, simulators_running,
    tick_count, valid_alarms_count, total_alarms_count, missed_alarms_count,
    rest_points_history, alarm_history,
    biometric_fatigue,                 \* first result of the last detect_fatigue call, -1 before it
    reset_calls,                       \* number of calls of _reset_to_normal_state so far
    main_pc,                           \* "new" after __init__, "loop" inside run()
    previous_score,                    \* input and result of the scoring call before the last one, <<>> if none
    inputs_used,                       \* key presses and ticks with a non-default random outcome so far
    loop_pc,                           \* position of the simulation thread in update_simulation, "off" before start()
    tick_local,                        \* locals of the run_tick calls under way: the fatigue_level of each
                                       \* thread's call (-1 outside), and the environment field the
                                       \* simulation thread is at with the argument it has read for it
    stop_ticks,                        \* run_tick calls the simulation thread began with simulation_running False
    acc_shown                          \* the ACC text last rendered, in hundredths of a percent, -1 before

vars == <<scenario, characteristic, rest_points, last_rest_tick, last_drive_tick_time,
          weather_condition, traffic_density, time_of_day, road_type, bio,
          alarm_probability, current_alarm_state, simulation_running, paused,
          simulators_running, tick_count, valid_alarms_count, total_alarms_count,
          missed_alarms_count, rest_points_history, alarm_history, biometric_fatigue,
          reset_calls, main_pc, previous_score, inputs_used,
          loop_pc, tick_local, stop_ticks, acc_shown>>

\* what only the stepwise thread model and the renderer write
step_vars == <<tick_local, stop_ticks, acc_shown>>

\* the fields run_tick reads and writes, as one record
State ==
    [characteristic |-> characteristic,
     rest_points |-> rest_points, last_rest_tick |-> last_rest_tick,
     last_drive_tick_time |-> last_drive_tick_time,
     weather_condition |-> weather_condition, traffic_density |-> traffic_density,
     time_of_day |-> time_of_day, road_type |-> road_type, bio |-> bio,
     alarm_probability |-> alarm_probability, current_alarm_state |-> current_alarm_state,
     simulators_running |-> simulators_running, tick_count |-> tick_count,
     valid_alarms_count |-> valid_alarms_count, total_alarms_count |-> total_alarms_count,
     missed_alarms_count |-> missed_alarms_count,
     rest_points_history |-> rest_points_history, alarm_history |-> alarm_history,
     biometric_fatigue |-> biometric_fatigue, reset_calls |-> reset_calls]

Commit(s) ==
    /\ rest_points' = s.rest_points
    /\ last_rest_tick' = s.last_rest_tick
    /\ last_drive_tick_time' = s.last_drive_tick_time
    /\ weather_condition' = s.weather_condition
    /\ traffic_density' = s.traffic_density
    /\ time_of_day' = s.time_of_day
    /\ road_type' = s.road_type
    /\ bio' = s.bio
    /\ alarm_probability' = s.alarm_probability
    /\ current_alarm_state' = s.current_alarm_state
    /\ tick_count' = s.tick_count
    /\ valid_alarms_count' = s.valid_alarms_count
    /\ total_alarms_count' = s.total_alarms_count
    /\ missed_alarms_count' = s.missed_alarms_count
    /\ rest_points_history' = s.rest_points_history
    /\ alarm_history' = s.alarm_history
    /\ biometric_fatigue' = s.biometric_fatigue
    /\ reset_calls' = s.reset_calls

\* deque(maxlen = deque_length).append
deque_append_unbounded(d, x) == Append(d, x)
deque_append(d, x) == IF Len(d) >= deque_length THEN Append(Tail(d), x) ELSE Append(d, x)

\* _is_alarm_valid, on the rest_points it is called with (1/RP)
is_alarm_valid(points) == points <= valid_alarm_threshold * RP

\* run_tick lines 72-77: environment evaluation on the context as the tick
\* finds it, then the physiological update at the current rest_points
tick_fatigue_level(s) ==
    evaluate_fatigue(s.time_of_day, s.weather_condition, s.traffic_density, s.road_type,
                     (s.tick_count - s.last_rest_tick) * 5)

tick_physiology(s, sign) ==
    [s EXCEPT !.bio = simulate_physiological(s.characteristic, s.bio, s.rest_points, sign)]

\* run_tick lines 78-88
tick_environment_unconditional(s, draw) ==
    [s EXCEPT !.weather_condition = simulate_field(@, draw.weather),
              !.traffic_density = simulate_field(@, draw.traffic),
              !.road_type = simulate_field(@, draw.road),
              !.time_of_day = simulate_time_of_day(@, s.tick_count)]
tick_environment(s, draw) ==
    IF s.simulators_running
    THEN [s EXCEPT !.weather_condition = simulate_field(@, draw.weather),
                   !.traffic_density = simulate_field(@, draw.traffic),
                   !.road_type = simulate_field(@, draw.road),
                   !.time_of_day = simulate_time_of_day(@, s.tick_count)]
    ELSE s

\* run_tick lines 92-98
count_alarm_missed_when_valid(s, alarm_triggered) ==
    LET valid == is_alarm_valid(s.rest_points)
    IN  [s EXCEPT !.total_alarms_count = IF alarm_triggered THEN @ + 1 ELSE @,
                  !.valid_alarms_count = IF alarm_triggered /\ valid THEN @ + 1 ELSE @,
                  !.missed_alarms_count = IF valid THEN @ + 1 ELSE @]
count_alarm(s, alarm_triggered) ==
    LET valid == is_alarm_valid(s.rest_points)
    IN  [s EXCEPT !.total_alarms_count = IF alarm_triggered THEN @ + 1 ELSE @,
                  !.valid_alarms_count = IF alarm_triggered /\ valid THEN @ + 1 ELSE @,
                  !.missed_alarms_count = IF ~alarm_triggered /\ valid THEN @ + 1 ELSE @]

\* run_tick lines 90-101
tick_classify(s) ==
    LET d == detect_fatigue(s.bio)
    IN  [count_alarm(s, d.alarm_triggered) EXCEPT
                  !.current_alarm_state = d.alarm_triggered,
                  !.alarm_probability = d.alarm_prob,
                  !.biometric_fatigue = d.fatigue_prob]

\* run_tick lines 103-111
tick_deduct(s, fatigue_level) ==
    LET points == s.rest_points - rest_loss_of(fatigue_level)
        alarm_color == IF is_alarm_valid(points) THEN "green" ELSE "red"
    IN  [s EXCEPT !.rest_points = points,
                  !.rest_points_history = deque_append(@, points),
                  !.alarm_history =
                      deque_append(@, <<IF s.current_alarm_state THEN 1 ELSE 0, alarm_color>>)]

\* run_tick line 113
rest_due(points) == points < rest_threshold * RP

\* run_tick lines 113-119
tick_rest_unadjusted(s) ==
    LET t == IF rest_due(s.rest_points)
             THEN [s EXCEPT !.rest_points = 100 * RP,
                            !.last_drive_tick_time = s.tick_count - s.last_rest_tick,
                            !.last_rest_tick = s.tick_count,
                            !.bio = [m \in Signals |-> reset_value(m)],
                            !.reset_calls = @ + 1]
             ELSE s
    IN  [t EXCEPT !.tick_count = @ + 1]
tick_rest_duration_from_start(s) ==
    LET t == IF rest_due(s.rest_points)
             THEN [s EXCEPT !.rest_points = 100 * RP,
                            !.last_drive_tick_time = s.tick_count,
                            !.last_rest_tick = s.tick_count,
                            !.bio = reset_to_normal_state(s.characteristic),
                            !.reset_calls = @ + 1]
             ELSE s
    IN  [t EXCEPT !.tick_count = @ + 1]
tick_rest(s) ==
    LET t == IF rest_due(s.rest_points)
             THEN [s EXCEPT !.rest_points = 100 * RP,
                            !.last_drive_tick_time = s.tick_count - s.last_rest_tick,
                            !.last_rest_tick = s.tick_count,
                            !.bio = reset_to_normal_state(s.characteristic),
                            !.reset_calls = @ + 1]
             ELSE s
    IN  [t EXCEPT !.tick_count = @ + 1]

\* run_tick, whole: sign is the noise of the six random.uniform calls, draw
\* the outcome of the environment simulator's random calls
run_tick_classify_late(s, sign, draw) ==
    LET fatigue_level == tick_fatigue_level(s)
    IN  tick_rest(tick_classify(tick_deduct(
            tick_environment(tick_physiology(s, sign), draw), fatigue_level)))
run_tick(s, sign, draw) ==
    LET fatigue_level == tick_fatigue_level(s)
    IN  tick_rest(tick_deduct(tick_classify(
            tick_environment(tick_physiology(s, sign), draw)), fatigue_level))

\* the outcomes of the random calls explored in one tick: no noise and no
\* redraw (the default), or one deviation from it, which is either one common
\* noise sign for the six readings or one redrawn environment field
NoNoise == [m \in Signals |-> 0]

NoDraw == [weather |-> "keep", traffic |-> "keep", road |-> "keep"]

RandomOutcomes ==
    {[sign |-> [m \in Signals |-> k], draw |-> NoDraw] : k \in {-1, 1}}
    \cup {[sign |-> NoNoise, draw |-> [NoDraw EXCEPT !.weather = w]] :
            w \in SeqRange(weather_options)}
    \cup {[sign |-> NoNoise, draw |-> [NoDraw EXCEPT !.traffic = t]] :
            t \in SeqRange(traffic_options)}
    \cup {[sign |-> NoNoise, draw |-> [NoDraw EXCEPT !.road = r]] :
            r \in SeqRange(road_options)}

\* __init__ of RestRecommendationSystem, DriverState and DriverSimulator
Init ==
    /\ scenario \in ScenarioType
    /\ characteristic \in DriverCharacteristic
    /\ rest_points = 100 * RP
    /\ last_rest_tick = 0
    /\ last_drive_tick_time = 0
    /\ weather_condition = environment_scenarios(scenario).weather_condition
    /\ traffic_density = environment_scenarios(scenario).traffic_density
    /\ time_of_day = environment_scenarios(scenario).time_of_day
    /\ road_type = environment_scenarios(scenario).road_type
    /\ bio = DefaultBio
    /\ alarm_probability = 0
    /\ current_alarm_state = FALSE
    /\ simulation_running = FALSE
    /\ paused = TRUE
    /\ simulators_running = FALSE
    /\ tick_count = 0
    /\ valid_alarms_count = 0
    /\ total_alarms_count = 0
    /\ missed_alarms_count = 0
    /\ rest_points_history = [i \in 1..deque_length |-> 100 * RP]
    /\ alarm_history = [i \in 1..deque_length |-> <<0, "black">>]
    /\ biometric_fatigue = -1
    /\ reset_calls = 0
    /\ main_pc = "new"
    /\ previous_score = <<>>
    /\ inputs_used = 0
    /\ loop_pc = "off"
    /\ tick_local = [loop |-> -1, main |-> -1, field |-> 0, held |-> "none"]
    /\ stop_ticks = 0
    /\ acc_shown = -1

TickStep ==
    /\ tick_count < MaxTick
    /\ \/ /\ Commit(run_tick(State, NoNoise, NoDraw))
          /\ UNCHANGED inputs_used
       \/ /\ inputs_used < MaxInputs
          /\ tick_count < InputTicks
          /\ inputs_used' = inputs_used + 1
          /\ \E o \in RandomOutcomes : Commit(run_tick(State, o.sign, o.draw))
    /\ UNCHANGED <<scenario, characteristic, simulation_running, paused,
                   simulators_running, main_pc, previous_score, loop_pc>>
    /\ UNCHANGED step_vars

\* run(): simulation_running = True and the simulation thread starts
Run ==
    /\ main_pc = "new"
    /\ main_pc' = "loop"
    /\ simulation_running' = TRUE
    /\ loop_pc' = "while"
    /\ UNCHANGED step_vars
    /\ UNCHANGED <<scenario, characteristic, rest_points, last_rest_tick,
                   last_drive_tick_time, weather_condition, traffic_density, time_of_day,
                   road_type, bio, alarm_probability, current_alarm_state, paused,
                   simulators_running, tick_count, valid_alarms_count, total_alarms_count,
                   missed_alarms_count, rest_points_history, alarm_history,
                   biometric_fatigue, reset_calls, previous_score, inputs_used>>

\* one iteration of update_simulation that runs a tick
update_simulation ==
    /\ simulation_running
    /\ ~paused
    /\ TickStep

\* K_SPACE: update_single_tick
update_single_tick ==
    /\ main_pc = "loop"
    /\ IF paused THEN TickStep ELSE UNCHANGED vars

\* K_RETURN: toggle_simulation
toggle_simulation ==
    /\ main_pc = "loop"
    /\ paused' = ~paused
    /\ UNCHANGED <<scenario, characteristic, rest_points, last_rest_tick,
                   last_drive_tick_time, weather_condition, traffic_density, time_of_day,
                   road_type, bio, alarm_probability, current_alarm_state,
                   simulation_running, simulators_running, tick_count, valid_alarms_count,
                   total_alarms_count, missed_alarms_count, rest_points_history,
                   alarm_history, biometric_fatigue, reset_calls, main_pc, previous_score,
                   inputs_used, loop_pc>>
    /\ UNCHANGED step_vars

\* handle_key_press for K_w, K_t, K_d, K_f, K_r
key_effect(key) ==
    /\ weather_condition' =
          IF key = "w" THEN NextOption(weather_options, weather_condition)
          ELSE weather_condition
    /\ traffic_density' =
          IF key = "t" THEN NextOption(traffic_options, traffic_density)
          ELSE traffic_density
    /\ time_of_day' =
          IF key = "d" THEN (IF time_of_day = "day" THEN "night" ELSE "day")
          ELSE time_of_day
    /\ simulators_running' = IF key = "f" THEN ~simulators_running ELSE simulators_running
    /\ road_type' =
          IF key = "r" THEN NextOption(road_options, road_type) ELSE road_type

handle_key_press(key) ==
    /\ main_pc = "loop"
    /\ inputs_used < MaxInputs
    /\ tick_count < InputTicks
    /\ inputs_used' = inputs_used + 1
    /\ key_effect(key)
    /\ UNCHANGED <<scenario, characteristic, rest_points, last_rest_tick,
                   last_drive_tick_time, bio, alarm_probability, current_alarm_state,
                   simulation_running, paused, tick_count, valid_alarms_count,
                   total_alarms_count, missed_alarms_count, rest_points_history,
                   alarm_history, biometric_fatigue, reset_calls, main_pc, previous_score,
                   loop_pc>>
    /\ UNCHANGED step_vars

KeyPress == \E key \in {"w", "t", "d", "f", "r"} : handle_key_press(key)

Next ==
    \/ Run
    \/ update_simulation
    \/ update_single_tick
    \/ toggle_simulation
    \/ KeyPress

Spec == Init /\ [][Next]_vars

\* ------------------------------------------------ detect_fatigue on its own
\* one reading inside each bin of each signal (1/Q)
bin_sample(m, i) ==
    CASE m = "heart_rate" -> (CASE i = 0 -> 75 * Q [] i = 1 -> 67 * Q [] i = 2 -> 62 * Q [] i = 3 -> 55 * Q)
      [] m = "hrv" -> (CASE i = 0 -> 50 * Q [] i = 1 -> 40 * Q [] i = 2 -> 30 * Q [] i = 3 -> 20 * Q)
      [] m = "eda" -> (CASE i = 0 -> 7 * Q [] i = 1 -> 5 * Q [] i = 2 -> 3 * Q [] i = 3 -> (3 * Q) \div 2)
      [] m = "perclos" -> (CASE i = 0 -> (15 * Q) \div 100 [] i = 1 -> (25 * Q) \div 100
                             [] i = 2 -> (35 * Q) \div 100 [] i = 3 -> (45 * Q) \div 100)
      [] m = "blink_duration" -> (CASE i = 0 -> 200 * Q [] i = 1 -> 300 * Q [] i = 2 -> 400 * Q [] i = 3 -> 500 * Q)
      [] m = "blink_rate" -> (CASE i = 0 -> 12 * Q [] i = 1 -> 16 * Q [] i = 2 -> 20 * Q [] i = 3 -> 25 * Q)

ScoreReadings == {[m \in Signals |-> bin_sample(m, k[m])] : k \in [Signals -> 0..3]}

EngineUnchanged ==
    UNCHANGED <<scenario, characteristic, rest_points, last_rest_tick, last_drive_tick_time,
                weather_condition, traffic_density, time_of_day, road_type,
                simulation_running, paused, simulators_running, tick_count,
                valid_alarms_count, total_alarms_count, missed_alarms_count,
                rest_points_history, alarm_history, reset_calls, inputs_used,
                loop_pc, tick_local, stop_ticks, acc_shown>>

InitScore ==
    /\ scenario = "normal"
    /\ characteristic = "normal"
    /\ rest_points = 100 * RP
    /\ last_rest_tick = 0
    /\ last_drive_tick_time = 0
    /\ weather_condition = environment_scenarios(scenario).weather_condition
    /\ traffic_density = environment_scenarios(scenario).traffic_density
    /\ time_of_day = environment_scenarios(scenario).time_of_day
    /\ road_type = environment_scenarios(scenario).road_type
    /\ bio \in ScoreReadings
    /\ alarm_probability = 0
    /\ current_alarm_state = FALSE
    /\ simulation_running = FALSE
    /\ paused = TRUE
    /\ simulators_running = FALSE
    /\ tick_count = 0
    /\ valid_alarms_count = 0
    /\ total_alarms_count = 0
    /\ missed_alarms_count = 0
    /\ rest_points_history = [i \in 1..deque_length |-> 100 * RP]
    /\ alarm_history = [i \in 1..deque_length |-> <<0, "black">>]
    /\ biometric_fatigue = -1
    /\ reset_calls = 0
    /\ main_pc = "score"
    /\ previous_score = <<>>
    /\ inputs_used = 0
    /\ loop_pc = "off"
    /\ tick_local = [loop |-> -1, main |-> -1, field |-> 0, held |-> "none"]
    /\ stop_ticks = 0
    /\ acc_shown = -1

\* biometric_fatigue, alarm_probability, alarm_triggered = detect_fatigue(driver_state)
Scored(b) ==
    /\ biometric_fatigue' = detect_fatigue(b).fatigue_prob
    /\ alarm_probability' = detect_fatigue(b).alarm_prob
    /\ current_alarm_state' = detect_fatigue(b).alarm_triggered

Score ==
    /\ main_pc = "score"
    /\ main_pc' = "scored"
    /\ Scored(bio)
    /\ UNCHANGED <<bio, previous_score>>
    /\ EngineUnchanged

\* one reading moves to another bin and the state is scored again
Rescore ==
    /\ main_pc = "scored"
    /\ \E m \in Signals, i \in 0..3 :
          /\ bin_sample(m, i) # bio[m]
          /\ bio' = [bio EXCEPT ![m] = bin_sample(m, i)]
    /\ Scored(bio')
    /\ previous_score' = [bio |-> bio, fatigue_prob |-> biometric_fatigue]
    /\ main_pc' = "rescored"
    /\ EngineUnchanged

NextScore == Score \/ Rescore

SpecScore == InitScore /\ [][NextScore]_vars

\* ------------------------------------------- _get_biometric_states on its own
\* the state RestRecommendationSystem.__init__ leaves, apart from the
\* constructor arguments, the six readings and the position of the caller
FreshEngine(sc) ==
    /\ rest_points = 100 * RP
    /\ last_rest_tick = 0
    /\ last_drive_tick_time = 0
    /\ weather_condition = environment_scenarios(sc).weather_condition
    /\ traffic_density = environment_scenarios(sc).traffic_density
    /\ time_of_day = environment_scenarios(sc).time_of_day
    /\ road_type = environment_scenarios(sc).road_type
    /\ alarm_probability = 0
    /\ current_alarm_state = FALSE
    /\ simulation_running = FALSE
    /\ paused = TRUE
    /\ simulators_running = FALSE
    /\ tick_count = 0
    /\ valid_alarms_count = 0
    /\ total_alarms_count = 0
    /\ missed_alarms_count = 0
    /\ rest_points_history = [i \in 1..deque_length |-> 100 * RP]
    /\ alarm_history = [i \in 1..deque_length |-> <<0, "black">>]
    /\ biometric_fatigue = -1
    /\ reset_calls = 0
    /\ previous_score = <<>>
    /\ inputs_used = 0
    /\ loop_pc = "off"
    /\ tick_local = [loop |-> -1, main |-> -1, field |-> 0, held |-> "none"]
    /\ stop_ticks = 0
    /\ acc_shown = -1

\* the threshold of _get_biometric_states between bin j - 1 and bin j (1/Q)
bin_boundary(m, j) ==
    CASE m = "heart_rate" -> (CASE j = 1 -> 70 * Q [] j = 2 -> 65 * Q [] j = 3 -> 60 * Q)
      [] m = "hrv" -> (CASE j = 1 -> 45 * Q [] j = 2 -> 35 * Q [] j = 3 -> 25 * Q)
      [] m = "eda" -> (CASE j = 1 -> 6 * Q [] j = 2 -> 4 * Q [] j = 3 -> 2 * Q)
      [] m = "perclos" -> (CASE j = 1 -> (20 * Q) \div 100 [] j = 2 -> (30 * Q) \div 100
                             [] j = 3 -> (40 * Q) \div 100)
      [] m = "blink_duration" -> (CASE j = 1 -> 250 * Q [] j = 2 -> 350 * Q [] j = 3 -> 450 * Q)
      [] m = "blink_rate" -> (CASE j = 1 -> 14 * Q [] j = 2 -> 18 * Q [] j = 3 -> 22 * Q)

\* the outer threshold of the rested bin (1/Q), and a reading beyond it
rested_end(m) ==
    CASE m = "heart_rate" -> 80 * Q
      [] m = "hrv" -> 55 * Q
      [] m = "eda" -> 8 * Q
      [] m = "perclos" -> (10 * Q) \div 100
      [] m = "blink_duration" -> 150 * Q
      [] m = "blink_rate" -> 10 * Q

beyond_rested_sample(m) ==
    CASE m = "heart_rate" -> 85 * Q
      [] m = "hrv" -> 60 * Q
      [] m = "eda" -> 9 * Q
      [] m = "perclos" -> (5 * Q) \div 100
      [] m = "blink_duration" -> 120 * Q
      [] m = "blink_rate" -> 9 * Q

\* readings that fall with fatigue have their rested end at the top
falls_with_fatigue(m) == m \in {"heart_rate", "hrv", "eda"}

beyond_rested_end(m, v) == IF falls_with_fatigue(m) THEN v > rested_end(m) ELSE v < rested_end(m)

beyond_fatigued_end(m, v) ==
    IF falls_with_fatigue(m) THEN v < bin_boundary(m, 3) ELSE v > bin_boundary(m, 3)

BinProbes(m) ==
    {bin_boundary(m, j) : j \in 1..3} \cup {beyond_rested_sample(m), bin_sample(m, 3)}

\* one reading at a probe, the other five inside bin k
ProbeReadings ==
    UNION {{[[o \in Signals |-> bin_sample(o, k)] EXCEPT ![m] = v] :
                v \in BinProbes(m), k \in 0..3} : m \in Signals}

InitBins ==
    /\ scenario = "normal"
    /\ characteristic \in DriverCharacteristic
    /\ FreshEngine(scenario)
    /\ bio \in ProbeReadings
    /\ main_pc = "score"

\* _reset_to_normal_state(driver_state) on the state just scored
ResetToNormal ==
    /\ main_pc = "scored"
    /\ main_pc' = "reset"
    /\ bio' = reset_to_normal_state(characteristic)
    /\ reset_calls' = reset_calls + 1
    /\ UNCHANGED <<scenario, characteristic, rest_points, last_rest_tick, last_drive_tick_time,
                   weather_condition, traffic_density, time_of_day, road_type,
                   alarm_probability, current_alarm_state, simulation_running, paused,
                   simulators_running, tick_count, valid_alarms_count, total_alarms_count,
                   missed_alarms_count, rest_points_history, alarm_history,
                   biometric_fatigue, previous_score, inputs_used, loop_pc>>
    /\ UNCHANGED step_vars

\* detect_fatigue(driver_state) on the state the reset left
ScoreReset ==
    /\ main_pc = "reset"
    /\ main_pc' = "reset_scored"
    /\ Scored(bio)
    /\ UNCHANGED <<bio, previous_score>>
    /\ EngineUnchanged

NextBins == Score \/ ResetToNormal \/ ScoreReset

SpecBins == InitBins /\ [][NextBins]_vars

\* --------------------------------- the two threads of run(), statement by statement
\* run_tick from line 76 on, with the fatigue_level lines 72-75 computed
run_tick_body(s, fatigue_level, sign, draw) ==
    tick_rest(tick_deduct(tick_classify(
        tick_environment(tick_physiology(s, sign), draw)), fatigue_level))

\* the fields run_tick writes stay as they are
TickFieldsUnchanged ==
    UNCHANGED <<rest_points, last_rest_tick, last_drive_tick_time, weather_condition,
                traffic_density, time_of_day, road_type, bio, alarm_probability,
                current_alarm_state, tick_count, valid_alarms_count, total_alarms_count,
                missed_alarms_count, rest_points_history, alarm_history,
                biometric_fatigue, reset_calls>>

ConfigUnchanged == UNCHANGED <<scenario, characteristic, simulators_running, previous_score,
                               inputs_used, acc_shown>>

InitConc ==
    /\ scenario \in ScenarioType
    /\ characteristic = "normal"
    /\ FreshEngine(scenario)
    /\ bio = DefaultBio
    /\ main_pc = "new"

\* `while self.simulation_running` of update_simulation
loop_condition_ignoring_stop(running) == TRUE
loop_condition(running) == running

\* simulation thread, line 292: the test of the while loop
LoopWhile ==
    /\ loop_pc = "while"
    /\ loop_condition(simulation_running) => tick_count < MaxConcTick
    /\ loop_pc' = IF loop_condition(simulation_running) THEN "if" ELSE "done"
    /\ TickFieldsUnchanged /\ ConfigUnchanged
    /\ UNCHANGED <<simulation_running, paused, main_pc, tick_local, stop_ticks>>

\* simulation thread, line 293: `if not self.paused`
LoopIf ==
    /\ loop_pc = "if"
    /\ loop_pc' = IF paused THEN "sleep" ELSE "call"
    /\ TickFieldsUnchanged /\ ConfigUnchanged
    /\ UNCHANGED <<simulation_running, paused, main_pc, tick_local, stop_ticks>>

\* simulation thread, line 294: run_tick is entered and evaluates fatigue_level
LoopTickBegin ==
    /\ loop_pc = "call"
    /\ loop_pc' = "tick"
    /\ tick_local' = [tick_local EXCEPT !.loop = tick_fatigue_level(State)]
    /\ stop_ticks' = IF simulation_running THEN stop_ticks ELSE stop_ticks + 1
    /\ TickFieldsUnchanged /\ ConfigUnchanged
    /\ UNCHANGED <<simulation_running, paused, main_pc>>

\* simulation thread: the rest of run_tick, on the state it finds
LoopTickEnd ==
    /\ loop_pc = "tick"
    /\ loop_pc' = "sleep"
    /\ Commit(run_tick_body(State, tick_local.loop, NoNoise, NoDraw))
    /\ tick_local' = [tick_local EXCEPT !.loop = -1]
    /\ ConfigUnchanged
    /\ UNCHANGED <<simulation_running, paused, main_pc, stop_ticks>>

\* simulation thread, line 295: time.sleep returns
LoopSleep ==
    /\ loop_pc = "sleep"
    /\ loop_pc' = "while"
    /\ TickFieldsUnchanged /\ ConfigUnchanged
    /\ UNCHANGED <<simulation_running, paused, main_pc, tick_local, stop_ticks>>

LoopThread == LoopWhile \/ LoopIf \/ LoopTickBegin \/ LoopTickEnd \/ LoopSleep

\* main thread, K_SPACE: update_single_tick finds paused set and enters run_tick
StepBegin ==
    /\ main_pc = "loop"
    /\ paused
    /\ tick_count < MaxConcTick
    /\ main_pc' = "step"
    /\ tick_local' = [tick_local EXCEPT !.main = tick_fatigue_level(State)]
    /\ TickFieldsUnchanged /\ ConfigUnchanged
    /\ UNCHANGED <<simulation_running, paused, loop_pc, stop_ticks>>

\* main thread: the rest of run_tick
StepEnd ==
    /\ main_pc = "step"
    /\ main_pc' = "loop"
    /\ Commit(run_tick_body(State, tick_local.main, NoNoise, NoDraw))
    /\ tick_local' = [tick_local EXCEPT !.main = -1]
    /\ ConfigUnchanged
    /\ UNCHANGED <<simulation_running, paused, loop_pc, stop_ticks>>

\* main thread, pygame.QUIT: simulation_running = False; the events that
\* follow it in the same batch are still handled
Quit ==
    /\ main_pc = "loop"
    /\ simulation_running
    /\ simulation_running' = FALSE
    /\ TickFieldsUnchanged /\ ConfigUnchanged
    /\ UNCHANGED <<paused, main_pc, loop_pc, tick_local, stop_ticks>>

\* main thread: the while test of run() fails, the finally block clears the
\* flag again and calls join (stop() does the same two statements)
MainExit ==
    /\ main_pc = "loop"
    /\ ~simulation_running
    /\ simulation_running' = FALSE
    /\ main_pc' = "join"
    /\ TickFieldsUnchanged /\ ConfigUnchanged
    /\ UNCHANGED <<paused, loop_pc, tick_local, stop_ticks>>

\* simulation_thread.join() returns once update_simulation has returned
Join ==
    /\ main_pc = "join"
    /\ loop_pc = "done"
    /\ main_pc' = "joined"
    /\ TickFieldsUnchanged /\ ConfigUnchanged
    /\ UNCHANGED <<simulation_running, paused, loop_pc, tick_local, stop_ticks>>

NextConc ==
    \/ Run
    \/ LoopThread
    \/ toggle_simulation
    \/ StepBegin
    \/ StepEnd
    \/ Quit
    \/ MainExit
    \/ Join

SpecConc == InitConc /\ [][NextConc]_vars

\* the steps of LoopThread as they move loop_pc
LoopProgress ==
    \/ /\ loop_pc = "while"
       /\ loop_condition(simulation_running) => tick_count < MaxConcTick
       /\ loop_pc' = IF loop_condition(simulation_running) THEN "if" ELSE "done"
    \/ /\ loop_pc = "if"
       /\ loop_pc' = IF paused THEN "sleep" ELSE "call"
    \/ /\ loop_pc = "call"
       /\ loop_pc' = "tick"
    \/ /\ loop_pc = "tick"
       /\ loop_pc' = "sleep"
    \/ /\ loop_pc = "sleep"
       /\ loop_pc' = "while"

\* the scheduler lets the simulation thread run again whenever it can take
\* a step, and the main thread leaves run() and returns from join when it can
SpecConcLive ==
    /\ InitConc /\ [][NextConc]_vars
    /\ WF_loop_pc(LoopProgress) /\ WF_vars(MainExit) /\ WF_vars(Join)

\* ------------------------------------------------- a tick left by an exception
\* run_tick has no try block and works on the one DriverState in place: an
\* exception raised by a step leaves what the steps before it have written.
TickStages == {"evaluate", "physiological", "environment", "scoring", "deduction", "rest"}

\* the state at the moment the step `stage` of run_tick raises
run_tick_until(s, stage, sign, draw) ==
    CASE stage \in {"evaluate", "physiological"} -> s
      [] stage = "environment" -> tick_physiology(s, sign)
      [] stage = "scoring" -> tick_environment(tick_physiology(s, sign), draw)
      [] stage = "deduction" ->
            tick_classify(tick_environment(tick_physiology(s, sign), draw))
      [] stage = "rest" ->
            tick_deduct(tick_classify(tick_environment(tick_physiology(s, sign), draw)),
                        tick_fatigue_level(s))

\* a tick of either thread ends in an exception; the thread that ran it is
\* left by the exception and what it does next is not followed
TickRaises ==
    /\ main_pc = "loop"
    /\ tick_count < MaxTick
    /\ \E stage \in TickStages : Commit(run_tick_until(State, stage, NoNoise, NoDraw))
    /\ main_pc' = "raised"
    /\ UNCHANGED <<scenario, characteristic, simulation_running, paused,
                   simulators_running, previous_score, inputs_used, loop_pc>>
    /\ UNCHANGED step_vars

NextFail == Next \/ TickRaises

SpecFail == Init /\ [][NextFail]_vars

\* -------------------------------------------------------------- construction
\* RestRecommendationSystem(scenario, driver_scenario) with any two names;
\* "None" stands for an argument left out
ScenarioArgs == ScenarioType \cup {"None", "adverse"}

CharacteristicArgs == DriverCharacteristic \cup {"None", "sleepy"}

\* environment_scenarios[self.scenario] of DriverState.__post_init__
scenario_settings_defaulting(sc) ==
    IF sc \in ScenarioType
    THEN [raised |-> FALSE, settings |-> environment_scenarios(sc)]
    ELSE [raised |-> FALSE, settings |-> environment_scenarios("normal")]
scenario_settings(sc) ==
    IF sc \in ScenarioType
    THEN [raised |-> FALSE, settings |-> environment_scenarios(sc)]
    ELSE [raised |-> TRUE]

\* self.characteristic_biases[characteristic] of DriverSimulator.__init__
biases(c) == [raised |-> c \notin DriverCharacteristic]

InitNew ==
    /\ scenario \in ScenarioArgs
    /\ characteristic \in CharacteristicArgs
    /\ main_pc = "args"
    /\ weather_condition = "unset"
    /\ traffic_density = "unset"
    /\ time_of_day = "unset"
    /\ road_type = "unset"
    /\ bio = DefaultBio
    /\ rest_points = 100 * RP
    /\ last_rest_tick = 0
    /\ last_drive_tick_time = 0
    /\ alarm_probability = 0
    /\ current_alarm_state = FALSE
    /\ simulation_running = FALSE
    /\ paused = TRUE
    /\ simulators_running = FALSE
    /\ tick_count = 0
    /\ valid_alarms_count = 0
    /\ total_alarms_count = 0
    /\ missed_alarms_count = 0
    /\ rest_points_history = [i \in 1..deque_length |-> 100 * RP]
    /\ alarm_history = [i \in 1..deque_length |-> <<0, "black">>]
    /\ biometric_fatigue = -1
    /\ reset_calls = 0
    /\ previous_score = <<>>
    /\ inputs_used = 0
    /\ loop_pc = "off"
    /\ tick_local = [loop |-> -1, main |-> -1, field |-> 0, held |-> "none"]
    /\ stop_ticks = 0
    /\ acc_shown = -1

\* __init__: DriverState(scenario) first, then DriverSimulator(driver_scenario);
\* a KeyError of either leaves __init__ and no instance is returned
Construct ==
    /\ main_pc = "args"
    /\ IF scenario_settings(scenario).raised \/ biases(characteristic).raised
       THEN /\ main_pc' = "KeyError"
            /\ UNCHANGED <<weather_condition, traffic_density, time_of_day, road_type>>
       ELSE /\ main_pc' = "new"
            /\ weather_condition' = scenario_settings(scenario).settings.weather_condition
            /\ traffic_density' = scenario_settings(scenario).settings.traffic_density
            /\ time_of_day' = scenario_settings(scenario).settings.time_of_day
            /\ road_type' = scenario_settings(scenario).settings.road_type
    /\ UNCHANGED <<scenario, characteristic, rest_points, last_rest_tick,
                   last_drive_tick_time, bio, alarm_probability, current_alarm_state,
                   simulation_running, paused, simulators_running, tick_count,
                   valid_alarms_count, total_alarms_count, missed_alarms_count,
                   rest_points_history, alarm_history, biometric_fatigue, reset_calls,
                   previous_score, inputs_used, loop_pc>>
    /\ UNCHANGED step_vars

NextNew == Construct \/ Next

SpecNew == InitNew /\ [][NextNew]_vars

\* ------------------------------------------------------- the ACC line of run()
\* the number the f-string of line 365 prints, in hundredths of a percent:
\* valid / ((total or 1) + (missed or 1)) * 100, formatted with .2f
accuracy_text(valid, total, missed) ==
    LET den == (IF total > 0 THEN total ELSE 1) + (IF missed > 0 THEN missed ELSE 1)
    IN  (2 * 10000 * valid + den) \div (2 * den)

InitAcc ==
    /\ scenario = "normal"
    /\ characteristic = "normal"
    /\ FreshEngine(scenario)
    /\ bio = DefaultBio
    /\ main_pc = "count"

\* lines 92-100 of run_tick for either answer of the detector, on a driver
\* above or at the ground-truth threshold
CountAlarm ==
    /\ main_pc \in {"count", "shown"}
    /\ total_alarms_count + missed_alarms_count < MaxAlarms
    /\ main_pc' = "count"
    /\ \E alarm_triggered \in BOOLEAN, points \in {100 * RP, valid_alarm_threshold * RP} :
          LET c == count_alarm([State EXCEPT !.rest_points = points], alarm_triggered)
          IN  /\ rest_points' = points
              /\ current_alarm_state' = alarm_triggered
              /\ valid_alarms_count' = c.valid_alarms_count
              /\ total_alarms_count' = c.total_alarms_count
              /\ missed_alarms_count' = c.missed_alarms_count
    /\ UNCHANGED <<scenario, characteristic, last_rest_tick, last_drive_tick_time,
                   weather_condition, traffic_density, time_of_day, road_type, bio,
                   alarm_probability, simulation_running, paused, simulators_running,
                   tick_count, rest_points_history, alarm_history, biometric_fatigue,
                   reset_calls, previous_score, inputs_used, loop_pc, tick_local,
                   stop_ticks, acc_shown>>

\* one frame of run(): the ACC text is rendered from the three counters
Render ==
    /\ main_pc = "count"
    /\ main_pc' = "shown"
    /\ acc_shown' = accuracy_text(valid_alarms_count, total_alarms_count, missed_alarms_count)
    /\ TickFieldsUnchanged
    /\ UNCHANGED <<scenario, characteristic, simulation_running, paused,
                   simulators_running, previous_score, inputs_used, loop_pc, tick_local,
                   stop_ticks>>

NextAcc == CountAlarm \/ Render

SpecAcc == InitAcc /\ [][NextAcc]_vars

\* --------------------- key presses against the environment step of a tick
\* the environment fields in the order lines 79-88 of run_tick write them
env_fields == <<"weather_condition", "traffic_density", "road_type", "time_of_day">>

env_value(k) ==
    CASE k = 1 -> weather_condition
      [] k = 2 -> traffic_density
      [] k = 3 -> road_type
      [] k = 4 -> time_of_day

\* simulation thread, lines 72-78: fatigue_level, the physiological update
\* and the test of simulators_running
EnvTickBegin ==
    /\ loop_pc = "call"
    /\ loop_pc' = IF simulators_running THEN "env" ELSE "score"
    /\ tick_local' = [tick_local EXCEPT !.loop = tick_fatigue_level(State),
                                        !.field = 1, !.held = "none"]
    /\ bio' = simulate_physiological(characteristic, bio, rest_points, NoNoise)
    /\ UNCHANGED <<rest_points, last_rest_tick, last_drive_tick_time, weather_condition,
                   traffic_density, time_of_day, road_type, alarm_probability,
                   current_alarm_state, tick_count, valid_alarms_count, total_alarms_count,
                   missed_alarms_count, rest_points_history, alarm_history,
                   biometric_fatigue, reset_calls>>
    /\ ConfigUnchanged
    /\ UNCHANGED <<simulation_running, paused, main_pc, stop_ticks>>

\* simulation thread: the argument self.driver_state.<field> of the next
\* simulate_ call is read
EnvRead ==
    /\ loop_pc = "env"
    /\ tick_local.held = "none"
    /\ tick_local' = [tick_local EXCEPT !.held = env_value(tick_local.field)]
    /\ TickFieldsUnchanged /\ ConfigUnchanged
    /\ UNCHANGED <<simulation_running, paused, main_pc, loop_pc, stop_ticks>>

\* simulation thread: the simulate_ call returns and its result is stored in
\* the field; random.random() is not below the change probability, so the
\* three random fields get back the argument that was read
EnvWrite ==
    /\ loop_pc = "env"
    /\ tick_local.held # "none"
    /\ LET k == tick_local.field
           v == IF k = 4 THEN simulate_time_of_day(tick_local.held, tick_count)
                ELSE simulate_field(tick_local.held, "keep")
       IN  /\ weather_condition' = IF k = 1 THEN v ELSE weather_condition
           /\ traffic_density' = IF k = 2 THEN v ELSE traffic_density
           /\ road_type' = IF k = 3 THEN v ELSE road_type
           /\ time_of_day' = IF k = 4 THEN v ELSE time_of_day
           /\ tick_local' = [tick_local EXCEPT !.field = IF k = 4 THEN 0 ELSE k + 1,
                                               !.held = "none"]
           /\ loop_pc' = IF k = 4 THEN "score" ELSE "env"
    /\ UNCHANGED <<rest_points, last_rest_tick, last_drive_tick_time, bio,
                   alarm_probability, current_alarm_state, tick_count, valid_alarms_count,
                   total_alarms_count, missed_alarms_count, rest_points_history,
                   alarm_history, biometric_fatigue, reset_calls>>
    /\ ConfigUnchanged
    /\ UNCHANGED <<simulation_running, paused, main_pc, stop_ticks>>

\* simulation thread, lines 90-119
EnvTickEnd ==
    /\ loop_pc = "score"
    /\ loop_pc' = "sleep"
    /\ Commit(tick_rest(tick_deduct(tick_classify(State), tick_local.loop)))
    /\ tick_local' = [tick_local EXCEPT !.loop = -1]
    /\ ConfigUnchanged
    /\ UNCHANGED <<simulation_running, paused, main_pc, stop_ticks>>

\* main thread: handle_key_press while the simulation thread runs
EnvKeyPress ==
    /\ main_pc = "loop"
    /\ inputs_used < MaxEnvKeys
    /\ inputs_used' = inputs_used + 1
    /\ \E key \in {"w", "t", "d", "f", "r"} : key_effect(key)
    /\ UNCHANGED <<scenario, characteristic, rest_points, last_rest_tick,
                   last_drive_tick_time, bio, alarm_probability, current_alarm_state,
                   simulation_running, paused, tick_count, valid_alarms_count,
                   total_alarms_count, missed_alarms_count, rest_points_history,
                   alarm_history, biometric_fatigue, reset_calls, main_pc, previous_score,
                   loop_pc>>
    /\ UNCHANGED step_vars

NextEnv ==
    \/ Run
    \/ toggle_simulation
    \/ EnvKeyPress
    \/ LoopWhile
    \/ LoopIf
    \/ EnvTickBegin
    \/ EnvRead
    \/ EnvWrite
    \/ EnvTickEnd
    \/ LoopSleep

SpecEnv == InitConc /\ [][NextEnv]_vars

\* ------------------------------------------------------------- a long drive
\* run_tick with no noise and no redraw, over several rest periods and more
\* than one day of 288 ticks
LongTick ==
    /\ tick_count < MaxLongTick
    /\ Commit(run_tick(State, NoNoise, NoDraw))
    /\ UNCHANGED <<scenario, characteristic, simulation_running, paused,
                   simulators_running, main_pc, previous_score, inputs_used, loop_pc>>
    /\ UNCHANGED step_vars

\* one iteration of update_simulation that runs a tick
update_simulation_long ==
    /\ simulation_running
    /\ ~paused
    /\ LongTick

\* K_SPACE while paused
update_single_tick_long ==
    /\ main_pc = "loop"
    /\ paused
    /\ LongTick

\* K_f
ToggleSimulators == handle_key_press("f")

NextLong ==
    \/ Run
    \/ toggle_simulation
    \/ ToggleSimulators
    \/ update_simulation_long
    \/ update_single_tick_long

SpecLong == InitConc /\ [][NextLong]_vars

\* the step of update_simulation_long as it moves tick_count
LongProgress ==
    /\ simulation_running
    /\ ~paused
    /\ tick_count < MaxLongTick
    /\ tick_count' = tick_count + 1

\* the simulation thread is scheduled again whenever it can run a tick
SpecLongLive == InitConc /\ [][NextLong]_vars /\ WF_tick_count(LongProgress)

\* ------------------------------------------------- K_SPACE, call by call
\* `if self.paused` of update_single_tick
single_tick_condition_ignoring_pause(is_paused) == TRUE
single_tick_condition(is_paused) == is_paused

\* lines 324-325 of run(): the event loop dispatches K_SPACE
SpaceKey ==
    /\ main_pc = "loop"
    /\ main_pc' = "space"
    /\ TickFieldsUnchanged /\ ConfigUnchanged
    /\ UNCHANGED <<simulation_running, paused, loop_pc, tick_local, stop_ticks>>

\* update_single_tick finds paused set and calls run_tick; tick_local.main
\* keeps the count of the tick this call ran
SingleTickRun ==
    /\ main_pc = "space"
    /\ single_tick_condition(paused)
    /\ tick_count < MaxStepTick
    /\ main_pc' = "loop"
    /\ Commit(run_tick(State, NoNoise, NoDraw))
    /\ tick_local' = [tick_local EXCEPT !.main = tick_count]
    /\ ConfigUnchanged
    /\ UNCHANGED <<simulation_running, paused, loop_pc, stop_ticks>>

\* update_single_tick finds paused clear and returns
SingleTickSkip ==
    /\ main_pc = "space"
    /\ ~single_tick_condition(paused)
    /\ main_pc' = "loop"
    /\ TickFieldsUnchanged /\ ConfigUnchanged
    /\ UNCHANGED <<simulation_running, paused, loop_pc, tick_local, stop_ticks>>

\* one iteration of update_simulation that runs a tick
LoopTick ==
    /\ simulation_running
    /\ ~paused
    /\ tick_count < MaxStepTick
    /\ Commit(run_tick(State, NoNoise, NoDraw))
    /\ ConfigUnchanged
    /\ UNCHANGED <<simulation_running, paused, main_pc, loop_pc, tick_local, stop_ticks>>

NextStep ==
    \/ Run
    \/ toggle_simulation
    \/ SpaceKey
    \/ SingleTickRun
    \/ SingleTickSkip
    \/ LoopTick

SpecStep == InitConc /\ [][NextStep]_vars

\* ===================================================================== claims
IsTick == tick_count' = tick_count + 1

\* rest_points after the deduction of the tick just taken, as run_tick
\* appended it to rest_points_history before the rest check
DeductedPoints == rest_points_history'[Len(rest_points_history')]

\* C1: after any sequence of ticks and rest events, for every driver profile,
\* each of the six biometric readings is within its declared bound:
\* heart_rate [45,100], hrv [15,70], eda [1,12], perclos [0.1,0.5],
\* blink_duration [100,600], blink_rate [8,30].
C1_BiometricsWithinBounds ==
    /\ bio["heart_rate"] >= 45 * Q /\ bio["heart_rate"] <= 100 * Q
    /\ bio["hrv"] >= 15 * Q /\ bio["hrv"] <= 70 * Q
    /\ bio["eda"] >= 1 * Q /\ bio["eda"] <= 12 * Q
    /\ 10 * bio["perclos"] >= 1 * Q /\ 10 * bio["perclos"] <= 5 * Q
    /\ bio["blink_duration"] >= 100 * Q /\ bio["blink_duration"] <= 600 * Q
    /\ bio["blink_rate"] >= 8 * Q /\ bio["blink_rate"] <= 30 * Q

\* C2: rest_points is within [0,100] in every state, and so is every value
\* appended to the rest-budget history (the value a tick holds between its
\* deduction and its rest check); it never becomes negative.
C2_RestBudgetInRange ==
    /\ rest_points >= 0 /\ rest_points <= 100 * RP
    /\ \A i \in 1..Len(rest_points_history) :
          rest_points_history[i] >= 0 /\ rest_points_history[i] <= 100 * RP

C4_NoRestAtZeroThreshold ==
    rest_threshold = 0 =>
        /\ reset_calls = 0
        /\ last_rest_tick = 0
        /\ last_drive_tick_time = 0

\* C5: with rest_threshold = 0 and the ground-truth threshold at 20, the
\* missed-alarm counter is incremented once when rest_points crosses below 20
\* without an alarm, and not again on the following ticks on which
\* rest_points is still below 20 and no alarm fires.
C5_MissedOncePerCrossing ==
    [][(IsTick /\ ~current_alarm_state' /\ rest_points <= valid_alarm_threshold * RP) =>
        IF rest_points_history[Len(rest_points_history) - 1] > valid_alarm_threshold * RP
        THEN missed_alarms_count' = missed_alarms_count + 1
        ELSE missed_alarms_count' = missed_alarms_count]_vars

C8_AllSevereRaisesAlarm ==
    (biometric_fatigue # -1 /\ \A m \in Signals : biometric_state(m, bio[m]) = 3)
        => current_alarm_state

\* C9: for each of the 4^6 combinations of bins the fatigue probability
\* equals the weighted sum of the severities 0.1 / 0.4 / 0.7 / 0.9 of the
\* readings' actual four-level bins, clamped to [0,1] (the source applies no
\* scale factor, so scale = 1).
C9_WeightedSumOfBins ==
    biometric_fatigue # -1 =>
        biometric_fatigue =
            Min2(1000,
                 SumOver([m \in Signals |->
                            (CASE biometric_state(m, bio[m]) = 0 -> 1
                               [] biometric_state(m, bio[m]) = 1 -> 4
                               [] biometric_state(m, bio[m]) = 2 -> 7
                               [] biometric_state(m, bio[m]) = 3 -> 9)
                            * (IF m \in {"hrv", "perclos"} THEN 20 ELSE 15)],
                         Signals))

\* C10: of two scored states that differ in exactly one reading, the one in
\* which that reading is in the higher-severity bin has a fatigue probability
\* greater than or equal to the other's.
C10_Monotone ==
    previous_score # <<>> =>
        \A m \in Signals :
            (/\ \A o \in Signals \ {m} : previous_score.bio[o] = bio[o]
             /\ biometric_state(m, bio[m]) > biometric_state(m, previous_score.bio[m]))
                => biometric_fatigue >= previous_score.fatigue_prob

\* a reading moved from the rested bin to a higher one and the score rose
C10_Witness ==
    /\ previous_score # <<>>
    /\ biometric_state("hrv", previous_score.bio["hrv"]) = 0
    /\ biometric_state("hrv", bio["hrv"]) = 2
    /\ \A o \in Signals \ {"hrv"} : previous_score.bio[o] = bio[o]
    /\ biometric_fatigue > previous_score.fatigue_prob

\* C11: a reading exactly equal to the boundary between two adjacent severity
\* bins (heart_rate 70/65/60, hrv 45/35/25, eda 6/4/2, perclos 0.20/0.30/0.40,
\* blink_duration 250/350/450, blink_rate 14/18/22) is assigned to the
\* higher-severity of the two bins.
C11_BoundaryToHigherBin ==
    main_pc = "scored" =>
        \A m \in Signals, j \in 1..3 :
            bio[m] = bin_boundary(m, j) => biometric_state(m, bio[m]) = j

\* C12: a reading outside all bin ranges is assigned to the nearest extreme
\* bin: beyond the rested end of the range (heart_rate above 80, hrv above 55,
\* eda above 8, perclos below 0.10, blink_duration below 150, blink_rate below
\* 10) to the least-severe bin, beyond the fatigued end to the most-severe bin.
C12_OutOfRangeToNearestBin ==
    main_pc = "scored" =>
        \A m \in Signals :
            /\ beyond_rested_end(m, bio[m]) => biometric_state(m, bio[m]) = 0
            /\ beyond_fatigued_end(m, bio[m]) => biometric_state(m, bio[m]) = 3

\* C13: for every driver profile, scoring the state _reset_to_normal_state
\* produces puts each of the six readings in bin 0, so the fatigue probability
\* is at its floor 0.1 and no alarm is raised.
C13_ResetScoresMinimum ==
    main_pc = "reset_scored" =>
        /\ \A m \in Signals : biometric_state(m, bio[m]) = 0
        /\ biometric_fatigue = 100
        /\ ~current_alarm_state

\* C14: the pause flag gates the background loop: while paused is set the
\* simulation thread begins no tick, and tick_count, the driver state and the
\* alarm counters change only through update_single_tick.
C14_PauseGatesLoop ==
    [][paused =>
        /\ ~(loop_pc = "call" /\ loop_pc' = "tick")
        /\ (<<tick_count, bio, rest_points, missed_alarms_count, valid_alarms_count,
              total_alarms_count>>' #
            <<tick_count, bio, rest_points, missed_alarms_count, valid_alarms_count,
              total_alarms_count>> => main_pc = "step")]_vars

\* C15: under every interleaving of the simulation thread with pause toggles
\* and single steps of the main thread, the two threads are never both inside
\* run_tick.
C15_TicksNeverOverlap == ~(loop_pc = "tick" /\ main_pc = "step")

\* C16: after simulation_running has been set to False the simulation thread
\* begins at most one further tick, its loop terminates, and the join of the
\* main thread returns.
C16_StopCompletes ==
    /\ [](stop_ticks <= 1)
    /\ (main_pc # "new" /\ ~simulation_running) ~> (loop_pc = "done")
    /\ (main_pc = "join") ~> (main_pc = "joined")

\* the loop was past its while test when the flag fell: it ran one more tick,
\* then stopped, and the join returned
C16_Witness ==
    /\ main_pc = "joined"
    /\ loop_pc = "done"
    /\ ~simulation_running
    /\ stop_ticks = 1
    /\ tick_count >= 1

\* C17: a tick is all-or-nothing: when a step of a tick raises an exception,
\* the driver state, tick_count, the alarm counters and the history buffers
\* are exactly as they were before that tick began.
C17_TickAllOrNothing ==
    [][(main_pc # "raised" /\ main_pc' = "raised") =>
        UNCHANGED <<rest_points, last_rest_tick, last_drive_tick_time, weather_condition,
                    traffic_density, time_of_day, road_type, bio, tick_count,
                    valid_alarms_count, total_alarms_count, missed_alarms_count,
                    rest_points_history, alarm_history>>]_vars

\* C18: constructing the engine with a scenario or a driver characteristic
\* that is not a known preset, or with one left out, raises at construction:
\* no instance exists, no environment field is set and no tick ever runs.
C18_UnknownPresetFailsConstruction ==
    (scenario \notin ScenarioType \/ characteristic \notin DriverCharacteristic) =>
        /\ main_pc \in {"args", "KeyError"}
        /\ weather_condition = "unset"
        /\ ~simulation_running
        /\ tick_count = 0

\* the constructor was called without a scenario and has raised
C18_Witness ==
    /\ main_pc = "KeyError"
    /\ scenario = "None"
    /\ characteristic = "normal"

C20_LossFromBiometricScore ==
    [][IsTick =>
        LET rest_loss == rest_points - DeductedPoints
        IN  /\ 1000 * rest_loss >= 2 * biometric_fatigue' * RP
            /\ 2 * 1000 * rest_loss <= 5 * biometric_fatigue' * RP]_vars

\* C21: each history buffer holds at most deque_length = 200 entries in every
\* state; a tick appends exactly one entry to each (the deducted rest_points,
\* and the alarm flag of the tick) and evicts the oldest one, so the rest of
\* the buffer is the previous content shifted by one; no other step touches
\* the buffers.
C21_HistoriesAreRingBuffers ==
    /\ [](Len(rest_points_history) <= deque_length /\ Len(alarm_history) <= deque_length)
    /\ [][IF IsTick
          THEN /\ Len(rest_points_history') = deque_length
               /\ Len(alarm_history') = deque_length
               /\ \A i \in 1..(deque_length - 1) :
                     /\ rest_points_history'[i] = rest_points_history[i + 1]
                     /\ alarm_history'[i] = alarm_history[i + 1]
               /\ rest_points_history'[deque_length] =
                     rest_points - rest_loss_of(tick_fatigue_level(State))
               /\ alarm_history'[deque_length][1] = (IF current_alarm_state' THEN 1 ELSE 0)
          ELSE UNCHANGED <<rest_points_history, alarm_history>>]_vars

\* three ticks have pushed three samples behind the seeded 100.0 entries
C21_Witness ==
    /\ tick_count = 3
    /\ Len(rest_points_history) = deque_length
    /\ rest_points_history[deque_length] < rest_points_history[deque_length - 1]
    /\ rest_points_history[deque_length - 1] < rest_points_history[deque_length - 2]
    /\ rest_points_history[deque_length - 2] < rest_points_history[deque_length - 3]
    /\ rest_points_history[deque_length - 3] = 100 * RP
    /\ alarm_history[deque_length - 2][2] = "red"
    /\ alarm_history[deque_length - 3][2] = "black"

\* C22: an override of an environment field is never lost: when the
\* simulation thread stores the result of a simulate_ call that redrew
\* nothing, the field keeps the value it holds, also when a key press changed
\* it while the tick was under way.
C22_OverrideNeverLost ==
    [][(loop_pc = "env" /\ tick_local.held # "none" /\ tick_local'.held = "none") =>
        /\ UNCHANGED <<weather_condition, traffic_density, road_type>>
        /\ tick_count % 288 # 0 => UNCHANGED time_of_day]_vars

\* C23: starting from rest_points = 100 with the normal profile, the
\* environment held constant and no noise, the fatigue probability of each
\* tick is strictly greater than that of the tick before, until a rest event
\* fires.
C23_FatigueStrictlyIncreases ==
    [][(/\ IsTick
        /\ characteristic = "normal"
        /\ inputs_used' = 0
        /\ biometric_fatigue # -1
        /\ reset_calls' = 0) => biometric_fatigue' > biometric_fatigue]_vars

\* C24: the fatigue factor (100 - bias - energy_level) / 100 is clamped to
\* [0,1] before it is used: on a tick that starts with rest_points >= 75 the
\* factor is 0 and every reading moves towards its rested value shifted by the
\* profile's base_offset (no noise).
C24_FatigueFactorClamped ==
    [][(IsTick /\ rest_points >= (100 - fatigue_bias) * RP /\ inputs_used' = 0) =>
        \A m \in Signals :
            bio'[m] = update_metric(bio[m], metric_rested(m) + base_offset(characteristic, m),
                                    0, metric_min(m), metric_max(m))]_vars

\* C25: when a rest event fires in the tick with count t, the recorded drive
\* duration is t minus the last_rest_tick of before, and last_rest_tick
\* becomes t; a tick without a rest event changes neither; in every state
\* 0 <= last_rest_tick <= tick_count and the recorded duration is not negative.
C25_DriveDurationRecorded ==
    /\ [](/\ 0 <= last_rest_tick /\ last_rest_tick <= tick_count
          /\ last_drive_tick_time >= 0)
    /\ [][IsTick =>
            IF DeductedPoints < rest_threshold * RP
            THEN /\ last_drive_tick_time' = tick_count - last_rest_tick
                 /\ last_rest_tick' = tick_count
            ELSE UNCHANGED <<last_rest_tick, last_drive_tick_time>>]_vars

\* the second rest event has just fired: the duration recorded is the time
\* since the first one, not the tick count
C25_Witness ==
    /\ reset_calls = 2
    /\ last_rest_tick = tick_count - 1
    /\ last_drive_tick_time > 0
    /\ last_drive_tick_time < last_rest_tick

\* C26: when environment simulation is not enabled, a tick leaves weather,
\* traffic density, road type and time of day unchanged; with it off these
\* fields change only in a step that is one of the key presses.
C26_EnvironmentFrozenWhenOff ==
    /\ [][(IsTick /\ ~simulators_running) =>
            UNCHANGED <<weather_condition, traffic_density, road_type, time_of_day>>]_vars
    /\ [][(/\ ~simulators_running
           /\ <<weather_condition, traffic_density, road_type, time_of_day>>'
                 # <<weather_condition, traffic_density, road_type, time_of_day>>) =>
            /\ ~IsTick
            /\ \E key \in {"w", "t", "d", "r"} : key_effect(key)]_vars

\* ticks have run with environment simulation never enabled, the first of
\* them the tick with count 0, on which an enabled simulation flips time_of_day
C26_Witness ==
    /\ tick_count = 2
    /\ ~simulators_running
    /\ inputs_used = 0
    /\ time_of_day = environment_scenarios(scenario).time_of_day
    /\ weather_condition = environment_scenarios(scenario).weather_condition

\* C27: with environment simulation enabled and no override, time_of_day
\* flips on a tick exactly when that tick's count is a multiple of 288, and
\* is unchanged on every other tick.
C27_DayFlipsEvery288Ticks ==
    [][(IsTick /\ simulators_running) =>
        (time_of_day' # time_of_day <=> tick_count % 288 = 0)]_vars

\* simulation was enabled before the first tick: time_of_day flipped on tick
\* 0 and again on tick 288 and is back at the scenario's value
C27_Witness ==
    /\ simulators_running
    /\ tick_count = 289
    /\ time_of_day = environment_scenarios(scenario).time_of_day
    /\ alarm_history[deque_length][1] = 0

C29_RestEventuallyFires ==
    /\ [](\A tod \in {"day", "night"}, w \in SeqRange(weather_options),
             tr \in SeqRange(traffic_options), r \in SeqRange(road_options),
             minutes \in {0, 120, 125} :
                rest_loss_of(evaluate_fatigue(tod, w, tr, r, minutes)) > 0)
    /\ [][(IsTick /\ reset_calls' = reset_calls) => rest_points' < rest_points]_vars
    /\ <>[](simulation_running /\ ~paused) =>
          /\ (reset_calls = 0) ~> (reset_calls > 0)
          /\ (reset_calls = 1) ~> (reset_calls > 1)

\* the rest budget has run down tick by tick and a rest event has fired
C29_Witness ==
    /\ reset_calls = 1
    /\ ~paused
    /\ simulation_running
    /\ last_rest_tick = tick_count - 1
    /\ rest_points = 100 * RP
    /\ rest_points_history[deque_length] < 0
    /\ rest_points_history[deque_length - 1] > 0
    /\ rest_points_history[deque_length - 1] < rest_points_history[deque_length - 2]

\* C30: in every reachable state valid_alarms_count <= total_alarms_count;
\* none of the three counters ever decreases; one tick never increments both
\* valid_alarms_count and missed_alarms_count; and valid_alarms_count is
\* incremented only on a tick that also increments total_alarms_count.
C30_CountersConsistent ==
    /\ [](valid_alarms_count <= total_alarms_count)
    /\ [][/\ valid_alarms_count' \in {valid_alarms_count, valid_alarms_count + 1}
          /\ total_alarms_count' \in {total_alarms_count, total_alarms_count + 1}
          /\ missed_alarms_count' \in {missed_alarms_count, missed_alarms_count + 1}
          /\ ~(/\ valid_alarms_count' > valid_alarms_count
               /\ missed_alarms_count' > missed_alarms_count)
          /\ (valid_alarms_count' > valid_alarms_count =>
                total_alarms_count' > total_alarms_count)]_vars

\* one valid alarm, one alarm on a rested driver, one missed alarm
C30_Witness ==
    /\ valid_alarms_count = 1
    /\ total_alarms_count = 2
    /\ missed_alarms_count = 1

\* C31: for every tick, the colour stored with that tick's entry of
\* alarm_history marks the tick as valid (green) exactly when the
\* classification used for the counters in the same tick, _is_alarm_valid on
\* the rest_points the tick started with, found it valid.
C31_HistoryColourMatchesCounters ==
    [][IsTick =>
        (alarm_history'[deque_length][2] = "green" <=> is_alarm_valid(rest_points))]_vars

\* C32: the engine starts paused; update_single_tick called while paused is
\* clear leaves DriverState, tick_count, the counters and the histories
\* unchanged; called while paused is set (the loop then runs no tick) it
\* executes exactly one tick: tick_count grows by 1, each history takes one
\* entry, and the state is the one run_tick produces.
C32_SingleStepOnlyWhilePaused ==
    /\ [](main_pc = "new" => paused)
    /\ [][(main_pc = "space" /\ main_pc' = "loop") =>
            IF paused
            THEN /\ tick_count' = tick_count + 1
                 /\ State' = run_tick(State, NoNoise, NoDraw)
                 /\ SubSeq(rest_points_history', 1, deque_length - 1)
                       = SubSeq(rest_points_history, 2, deque_length)
                 /\ SubSeq(alarm_history', 1, deque_length - 1)
                       = SubSeq(alarm_history, 2, deque_length)
            ELSE TickFieldsUnchanged]_vars

\* the loop ran the tick with count 0, then the engine was paused and one
\* K_SPACE ran the tick with count 1
C32_Witness ==
    /\ main_pc = "loop"
    /\ paused
    /\ simulation_running
    /\ tick_count = 2
    /\ tick_local.main = 1
    /\ alarm_history[deque_length - 2][2] = "black"
====
